---- MODULE Spec2Model ----
(***************************************************************************)
(* A model of src/imu_analysis.py: analyze_imu_data(file_path) and the     *)
(* script under `if __name__ == "__main__"` that calls it once per file.   *)
(*                                                                         *)
(* Numbers.  The JSON floats are modelled as integers.  A mean is kept as  *)
(* the exact fraction [num, den]; a standard deviation or a norm of a mean *)
(* is kept as the exact surd [radicand, den], read sqrt(radicand)/den.     *)
(* A den of 0 is numpy's nan (a statistic of zero samples).                *)
(*                                                                         *)
(* Text.  A path or a file name is a sequence of one-character strings, so *)
(* that the slice file_path[0:3] and the concatenations are computed.      *)
(***************************************************************************)
EXTENDS Integers, Sequences, FiniteSets, TLC

VARIABLES
    disk,                   \* the input files: path -> content
    images,                 \* the PNG files of the working directory: name -> figure
    saved,                  \* the savefig calls so far: <<[path, name], ...>>
    pending,                \* the paths the script has still to analyse
    file_path,              \* the argument of the running invocation
    pc,                     \* the statement the invocation is at
    error,                  \* the exception that left the invocation, if any
    data,                   \* <<>> before json.load, <<value>> after
    idx,                    \* the position of the for loop's iterator (next entry)
    accel_data, gyro_data, timestamps, pitch_values, roll_values,
    gravity_adjusted_accel, \* <<>> before line 46, <<array>> after
    accel_noise, accel_bias, accel_bias_length,
    gyro_noise, gyro_bias, gyro_bias_length,
    stdout,                 \* the lines printed so far
    adjusted_timestamps,    \* <<>> before line 77, <<array>> after
    figure,                 \* <<>> before the plots, <<figure>> after
    result                  \* <<>> before the return, <<dict>> after

vars == <<disk, images, saved, pending, file_path, pc, error, data, idx,
          accel_data, gyro_data, timestamps, pitch_values, roll_values,
          gravity_adjusted_accel, accel_noise, accel_bias, accel_bias_length,
          gyro_noise, gyro_bias, gyro_bias_length, stdout,
          adjusted_timestamps, figure, result>>

locals == <<data, idx, accel_data, gyro_data, timestamps, pitch_values,
            roll_values, gravity_adjusted_accel, accel_noise, accel_bias,
            accel_bias_length, gyro_noise, gyro_bias, gyro_bias_length,
            adjusted_timestamps, figure, result>>

-----------------------------------------------------------------------------
(* Bounds *)

\* the longest input array of a single analysed file
MaxLen == 3

\* the most invocations of one run of the script
MaxRuns == 2

-----------------------------------------------------------------------------
(* Text *)

Min(a, b) == IF a < b THEN a ELSE b

\* Python's s[0:n]: the first n items, or all of s when it is shorter
Slice0(s, n) == SubSeq(s, 1, Min(n, Len(s)))

\* the number of leading characters of the path that label the outputs
PrefixLen == 3

ImagePrefix ==
    <<"p","i","t","c","h","_","r","o","l","l","_","t","i","m","e","_",
      "s","e","r","i","e","s">>

ImageSuffix == <<".","p","n","g">>

SupTitle ==
    <<"P","i","t","c","h"," ","a","n","d"," ","R","o","l","l"," ",
      "T","i","m","e"," ","S","e","r","i","e","s">>

\* a bug: the same file name whatever the input
ImageNameFixed(path) == ImagePrefix \o ImageSuffix

\* the argument of plt.savefig
ImageName(path) == ImagePrefix \o Slice0(path, PrefixLen) \o ImageSuffix

\* the argument of plt.suptitle
FigureTitle(path) == SupTitle \o Slice0(path, PrefixLen)

\* the five paths of the script, in the order it analyses them
MainPaths ==
    << <<"1",".","j","s","o","n">>,
       <<"2",".","j","s","o","n">>,
       <<"a","c","c","e","l","e","r","o","m","e","t","e","r","O","n","l","y",
         ".","j","s","o","n">>,
       <<"g","y","r","o","s","c","o","p","e","O","n","l","y",".","j","s","o","n">>,
       <<"c","o","m","p","l","e","m","e","n","t","a","r","y","F","i","l","t","e","r",
         ".","j","s","o","n">> >>

\* another caller's path: it shares its first characters with a path of the script
OtherPaths == { <<"g","y","r","o",".","j","s","o","n">> }

Paths == {MainPaths[i] : i \in 1..Len(MainPaths)} \cup OtherPaths

-----------------------------------------------------------------------------
(* JSON values *)

Keys == {"accelerometer", "gyroscope", "orientation"}

Dict(d) == [type |-> "dict", val |-> d]
\* a string, by the keys that occur in it (all `in` and the loop ask of it)
Str(w) == [type |-> "str", words |-> w]
Num == [type |-> "num"]

Drop(d, k) == [j \in DOMAIN d \ {k} |-> d[j]]

Sample(t, a, g, p, r) ==
    [timestamp     |-> t,
     accelerometer |-> [x |-> a[1], y |-> a[2], z |-> a[3]],
     gyroscope     |-> [x |-> g[1], y |-> g[2], z |-> g[3]],
     orientation   |-> [pitch |-> p, roll |-> r]]

\* complete records (the vectors have whole-number lengths 0, 1, 3, 5)
S1 == Sample(10, <<0, 0, -1>>, <<0, 0, 0>>, 1, -1)
S2 == Sample(12, <<0, 3, 0>>, <<3, 4, 0>>, 2, 0)
S3 == Sample(15, <<3, 0, -4>>, <<0, 0, 1>>, 0, 2)
\* the records the incomplete ones are cut from; their values occur nowhere else
S4 == Sample(20, <<0, 4, -3>>, <<4, 0, 3>>, 7, 9)
S5 == Sample(25, <<4, -3, 0>>, <<0, -3, 4>>, 5, 6)

CompleteEntries == {Dict(S1), Dict(S2), Dict(S3)}

\* records without one of the three sub-objects
KeylessEntries == {Dict(Drop(S4, k)) : k \in Keys}

\* records with the three sub-objects and a field missing below them
BrokenEntries ==
    {Dict([S5 EXCEPT !.accelerometer = Drop(@, "x")]),
     Dict([S5 EXCEPT !.gyroscope = Drop(@, "z")]),
     Dict(Drop(S5, "timestamp")),
     Dict([S5 EXCEPT !.orientation = Drop(@, "pitch")]),
     Dict([S5 EXCEPT !.orientation = Drop(@, "roll")])}

\* array items that are no objects at all
AlienEntries == {Str(Keys), Str({}), Num}

Entries == CompleteEntries \cup KeylessEntries \cup BrokenEntries \cup AlienEntries

BoundedSeq(S, n) == UNION {[1..k -> S] : k \in 0..n}

List(items) == [type |-> "list", items |-> items]
\* a top-level object, by its keys in insertion order
Object(keys) == [type |-> "object", keys |-> keys]

\* what a file holds: text json.load rejects, or the value it parses to
Invalid == [kind |-> "invalid"]
Json(v) == [kind |-> "json", value |-> v]

FileContents ==
    {Invalid, Json(Num), Json(Object(<<"accelerometer", "gyroscope", "orientation">>))}
        \cup {Json(List(s)) : s \in BoundedSeq(Entries, MaxLen)}

\* the files of a run of several invocations
RunContents ==
    {Json(List(<<Dict(S1)>>)), Json(List(<<Dict(S2), Dict(S1)>>)), Json(Num)}

-----------------------------------------------------------------------------
(* The filter of the loop *)

\* Python's `key in entry` (a dict: a key of it; a string: a substring of it)
Contains(entry, key) ==
    IF entry.type = "dict" THEN key \in DOMAIN entry.val ELSE key \in entry.words

\* `key in entry` raises TypeError for a number
ContainsRaises(entry) == entry.type = "num"

\* a bug: `or` for `and`
HasAnyKey(entry) == \E k \in Keys : Contains(entry, k)

\* the condition of line 23
HasAllKeys(entry) == \A k \in Keys : Contains(entry, k)

Vec(d) == <<d["x"], d["y"], d["z"]>>

\* a bug: the new item put first
ListInsertFirst(list, item) == <<item>> \o list

\* list.append(item)
ListAppend(list, item) == Append(list, item)

\* d[k][j] raises for no j of js
HasPath(d, k, js) == k \in DOMAIN d /\ js \subseteq DOMAIN d[k]

\* how many of the five appends of lines 24-38 run for an entry that passed
\* line 23, before a subscript raises (5: none raises)
Appended(entry) ==
    IF entry.type # "dict" THEN 0
    ELSE IF ~HasPath(entry.val, "accelerometer", {"x", "y", "z"}) THEN 0
    ELSE IF ~HasPath(entry.val, "gyroscope", {"x", "y", "z"}) THEN 1
    ELSE IF "timestamp" \notin DOMAIN entry.val THEN 2
    ELSE IF ~HasPath(entry.val, "orientation", {"pitch"}) THEN 3
    ELSE IF ~HasPath(entry.val, "orientation", {"roll"}) THEN 4
    ELSE 5

\* what the failing subscript raises
SubscriptError(entry) == IF entry.type = "dict" THEN "KeyError" ELSE "TypeError"

\* `for entry in data` raises TypeError for a number
Iterable(v) == v.type \in {"list", "object"}

\* what `for entry in data` yields: a list's items, an object's keys
Items(v) ==
    IF v.type = "list" THEN v.items
    ELSE [i \in 1..Len(v.keys) |-> Str({v.keys[i]} \cap Keys)]

-----------------------------------------------------------------------------
(* The statistics *)

RECURSIVE SumSeq(_)
SumSeq(s) == IF s = <<>> THEN 0 ELSE Head(s) + SumSeq(Tail(s))

\* the whole part of a square root (exact for the vectors of S1..S5)
ISqrt(n) == CHOOSE k \in 0..n : k * k <= n /\ n < (k + 1) * (k + 1)

\* np.sqrt(np.sum(a**2, axis=1))
RowNorms(a) ==
    [i \in 1..Len(a) |-> ISqrt(a[i][1] * a[i][1] + a[i][2] * a[i][2] + a[i][3] * a[i][3])]

\* a bug: the sample standard deviation (divisor N - 1)
SampleStd(m) ==
    LET n == Len(m)
        sq == [i \in 1..n |-> m[i] * m[i]]
    IN  [radicand |-> (n * SumSeq(sq) - SumSeq(m) * SumSeq(m)) * n * (n - 1),
         den      |-> n * (n - 1)]

\* np.std: sqrt(mean((m - mean(m))**2)) = sqrt(n*sum(m**2) - sum(m)**2) / n
Std(m) ==
    LET n == Len(m)
        sq == [i \in 1..n |-> m[i] * m[i]]
    IN  [radicand |-> n * SumSeq(sq) - SumSeq(m) * SumSeq(m), den |-> n]

Column(a, c) == [i \in 1..Len(a) |-> a[i][c]]

\* np.mean(a, axis=0)
MeanColumns(a) == [c \in 1..3 |-> [num |-> SumSeq(Column(a, c)), den |-> Len(a)]]

\* np.linalg.norm of a mean vector
NormOfMean(b) ==
    [radicand |-> b[1].num * b[1].num + b[2].num * b[2].num + b[3].num * b[3].num,
     den      |-> b[1].den]

\* a bug: np.array([]) taken to be a 0 x 3 array
ShapeTwoDim(list) == <<Len(list), 3>>

\* the shape of np.array(list): np.array([]) has one dimension
Shape(list) == IF list = <<>> THEN <<0>> ELSE <<Len(list), 3>>

\* a[:, 2] += 1.0
AddToZ(a) == [i \in 1..Len(a) |-> <<a[i][1], a[i][2], a[i][3] + 1>>]

\* a bug: no copy, the adjusted array is the raw array itself
AdjustInPlace(a) == [raw |-> AddToZ(a), adjusted |-> AddToZ(a)]

\* lines 46-47: the raw array and its adjusted copy
CopyAndAdjust(a) == [raw |-> a, adjusted |-> AddToZ(a)]

\* a bug: the lengths of the gravity-adjusted vectors
AdjustedLengths(raw, adjusted) == RowNorms(adjusted)

\* line 50: the lengths of the raw vectors
AccelLengths(raw, adjusted) == RowNorms(raw)

\* a bug: the shift by the smallest timestamp
ShiftToMin(t) ==
    IF Len(t) > 0
    THEN LET m == CHOOSE v \in {t[i] : i \in 1..Len(t)} :
                      \A j \in 1..Len(t) : v <= t[j]
         IN  [i \in 1..Len(t) |-> t[i] - m]
    ELSE t

\* lines 77-80
ShiftToStart(t) == IF Len(t) > 0 THEN [i \in 1..Len(t) |-> t[i] - t[1]] ELSE t

-----------------------------------------------------------------------------
(* The invocation *)

NoError == [type |-> "", at |-> ""]

Raise(type) ==
    /\ pc' = "raised"
    /\ error' = [type |-> type, at |-> pc]

\* the locals of a fresh call
Fresh ==
    /\ data = <<>>
    /\ idx = 1
    /\ accel_data = <<>>
    /\ gyro_data = <<>>
    /\ timestamps = <<>>
    /\ pitch_values = <<>>
    /\ roll_values = <<>>
    /\ gravity_adjusted_accel = <<>>
    /\ accel_noise = <<>>
    /\ accel_bias = <<>>
    /\ accel_bias_length = <<>>
    /\ gyro_noise = <<>>
    /\ gyro_bias = <<>>
    /\ gyro_bias_length = <<>>
    /\ adjusted_timestamps = <<>>
    /\ figure = <<>>
    /\ result = <<>>

\* one call of analyze_imu_data on one file, present or not
Init ==
    /\ file_path = MainPaths[1]
    /\ pending = <<>>
    /\ disk \in {[p \in {} |-> Invalid]}
                    \cup {[p \in {file_path} |-> c] : c \in FileContents}
    /\ images = [n \in {} |-> <<>>]
    /\ saved = <<>>
    /\ stdout = <<>>
    /\ pc = "open"
    /\ error = NoError
    /\ Fresh

\* line 12: open(file_path, 'r')
Open ==
    /\ pc = "open"
    /\ IF file_path \in DOMAIN disk
       THEN pc' = "load" /\ error' = error
       ELSE Raise("FileNotFoundError")
    /\ UNCHANGED <<disk, images, saved, pending, file_path, stdout, locals>>

\* lines 13-20: json.load(f), and the five empty lists
Load ==
    /\ pc = "load"
    /\ IF disk[file_path].kind = "json"
       THEN /\ data' = <<disk[file_path].value>>
            /\ pc' = "filter"
            /\ error' = error
       ELSE /\ data' = data
            /\ Raise("JSONDecodeError")
    /\ idx' = 1
    /\ UNCHANGED <<disk, images, saved, pending, file_path, stdout,
                   accel_data, gyro_data, timestamps, pitch_values, roll_values,
                   gravity_adjusted_accel, accel_noise, accel_bias,
                   accel_bias_length, gyro_noise, gyro_bias, gyro_bias_length,
                   adjusted_timestamps, figure, result>>

\* line 22 on a value that cannot be iterated
FilterNotIterable ==
    /\ pc = "filter"
    /\ ~Iterable(data[1])
    /\ Raise("TypeError")
    /\ UNCHANGED <<disk, images, saved, pending, file_path, stdout, locals>>

\* lines 22-38: one pass of the loop body
FilterEntry ==
    /\ pc = "filter"
    /\ Iterable(data[1])
    /\ idx <= Len(Items(data[1]))
    /\ LET entry == Items(data[1])[idx]
           taken == ~ContainsRaises(entry) /\ HasAllKeys(entry)
           n     == IF taken THEN Appended(entry) ELSE 0
       IN  /\ idx' = idx + 1
           /\ accel_data' =
                IF n >= 1 THEN ListAppend(accel_data, Vec(entry.val.accelerometer))
                ELSE accel_data
           /\ gyro_data' =
                IF n >= 2 THEN ListAppend(gyro_data, Vec(entry.val.gyroscope))
                ELSE gyro_data
           /\ timestamps' =
                IF n >= 3 THEN ListAppend(timestamps, entry.val.timestamp)
                ELSE timestamps
           /\ pitch_values' =
                IF n >= 4 THEN ListAppend(pitch_values, entry.val.orientation.pitch)
                ELSE pitch_values
           /\ roll_values' =
                IF n >= 5 THEN ListAppend(roll_values, entry.val.orientation.roll)
                ELSE roll_values
           /\ IF ContainsRaises(entry) THEN Raise("TypeError")
              ELSE IF taken /\ n < 5 THEN Raise(SubscriptError(entry))
              ELSE pc' = pc /\ error' = error
    /\ UNCHANGED <<disk, images, saved, pending, file_path, stdout, data,
                   gravity_adjusted_accel, accel_noise, accel_bias,
                   accel_bias_length, gyro_noise, gyro_bias, gyro_bias_length,
                   adjusted_timestamps, figure, result>>

\* the loop is exhausted; lines 41-43: np.array of the three lists
ToArrays ==
    /\ pc = "filter"
    /\ Iterable(data[1])
    /\ idx > Len(Items(data[1]))
    /\ pc' = "gravity"
    /\ UNCHANGED <<disk, images, saved, pending, file_path, stdout, error, locals>>

\* lines 46-47: the copy, and 1.0 added to its third column
AdjustGravity ==
    /\ pc = "gravity"
    /\ IF Len(Shape(accel_data)) < 2
       THEN /\ Raise("IndexError")
            /\ UNCHANGED <<accel_data, gravity_adjusted_accel>>
       ELSE /\ accel_data' = CopyAndAdjust(accel_data).raw
            /\ gravity_adjusted_accel' = <<CopyAndAdjust(accel_data).adjusted>>
            /\ pc' = "stats"
            /\ error' = error
    /\ UNCHANGED <<disk, images, saved, pending, file_path, stdout, data, idx,
                   gyro_data, timestamps, pitch_values, roll_values,
                   accel_noise, accel_bias, accel_bias_length,
                   gyro_noise, gyro_bias, gyro_bias_length,
                   adjusted_timestamps, figure, result>>

\* lines 50-59: noise and bias of the two channels
ComputeStatistics ==
    /\ pc = "stats"
    /\ accel_noise' = <<Std(AccelLengths(accel_data, gravity_adjusted_accel[1]))>>
    /\ accel_bias' = <<MeanColumns(gravity_adjusted_accel[1])>>
    /\ accel_bias_length' = <<NormOfMean(MeanColumns(gravity_adjusted_accel[1]))>>
    /\ gyro_noise' = <<Std(RowNorms(gyro_data))>>
    /\ gyro_bias' = <<MeanColumns(gyro_data)>>
    /\ gyro_bias_length' = <<NormOfMean(MeanColumns(gyro_data))>>
    /\ pc' = "print"
    /\ UNCHANGED <<disk, images, saved, pending, file_path, stdout, error,
                   data, idx, accel_data, gyro_data, timestamps, pitch_values,
                   roll_values, gravity_adjusted_accel,
                   adjusted_timestamps, figure, result>>

\* the nine print calls of lines 62-71 (each line by its text and the values
\* it formats; the digits of the :.6f rendering are not modelled)
Report ==
    << [text |-> "--- IMU Analysis Results ---", args |-> <<>>],
       [text |-> "Accelerometer:", args |-> <<>>],
       [text |-> "Noise (std of vector lengths)", args |-> accel_noise],
       [text |-> "Bias (average of vectors, gravity adjusted)", args |-> accel_bias],
       [text |-> "Bias vector length", args |-> accel_bias_length],
       [text |-> "Gyroscope:", args |-> <<>>],
       [text |-> "Noise (std of vector lengths)", args |-> gyro_noise],
       [text |-> "Bias (average of vectors)", args |-> gyro_bias],
       [text |-> "Bias vector length", args |-> gyro_bias_length] >>

\* lines 62-71
PrintReport ==
    /\ pc = "print"
    /\ stdout' = stdout \o Report
    /\ pc' = "plot"
    /\ UNCHANGED <<disk, images, saved, pending, file_path, error, locals>>

\* lines 74-98: the time axis and the two panels
Plot ==
    /\ pc = "plot"
    /\ adjusted_timestamps' = <<ShiftToStart(timestamps)>>
    /\ figure' = <<[pitch |-> [x |-> ShiftToStart(timestamps), y |-> pitch_values],
                    roll  |-> [x |-> ShiftToStart(timestamps), y |-> roll_values]]>>
    /\ pc' = "save"
    /\ UNCHANGED <<disk, images, saved, pending, file_path, stdout, error,
                   data, idx, accel_data, gyro_data, timestamps, pitch_values,
                   roll_values, gravity_adjusted_accel, accel_noise, accel_bias,
                   accel_bias_length, gyro_noise, gyro_bias, gyro_bias_length,
                   result>>

\* lines 101-104: the title, and the figure written over whatever has the name
SaveFigure ==
    /\ pc = "save"
    /\ LET name == ImageName(file_path)
           fig  == [title |-> FigureTitle(file_path),
                    pitch |-> figure[1].pitch,
                    roll  |-> figure[1].roll]
       IN  /\ figure' = <<fig>>
           /\ images' = [n \in DOMAIN images \cup {name} |->
                            IF n = name THEN fig ELSE images[n]]
           /\ saved' = Append(saved, [path |-> file_path, name |-> name])
    /\ pc' = "return"
    /\ UNCHANGED <<disk, pending, file_path, stdout, error,
                   data, idx, accel_data, gyro_data, timestamps, pitch_values,
                   roll_values, gravity_adjusted_accel, accel_noise, accel_bias,
                   accel_bias_length, gyro_noise, gyro_bias, gyro_bias_length,
                   adjusted_timestamps, result>>

\* lines 106-111
Return ==
    /\ pc = "return"
    /\ result' = <<[accel_noise |-> accel_noise[1], accel_bias |-> accel_bias[1],
                    gyro_noise  |-> gyro_noise[1],  gyro_bias  |-> gyro_bias[1]]>>
    /\ pc' = "done"
    /\ UNCHANGED <<disk, images, saved, pending, file_path, stdout, error,
                   data, idx, accel_data, gyro_data, timestamps, pitch_values,
                   roll_values, gravity_adjusted_accel, accel_noise, accel_bias,
                   accel_bias_length, gyro_noise, gyro_bias, gyro_bias_length,
                   adjusted_timestamps, figure>>

Next ==
    \/ Open
    \/ Load
    \/ FilterNotIterable
    \/ FilterEntry
    \/ ToArrays
    \/ AdjustGravity
    \/ ComputeStatistics
    \/ PrintReport
    \/ Plot
    \/ SaveFigure
    \/ Return

Spec == Init /\ [][Next]_vars

-----------------------------------------------------------------------------
(* The script: one call after another, each on a path not analysed before *)

Distinct(s) == \A i, j \in 1..Len(s) : i # j => s[i] # s[j]

Range(s) == {s[i] : i \in 1..Len(s)}

InitRuns ==
    /\ \E run \in BoundedSeq(Paths, MaxRuns) :
        /\ run # <<>>
        /\ Distinct(run)
        /\ file_path = Head(run)
        /\ pending = Tail(run)
        /\ \E present \in SUBSET Range(run) : disk \in [present -> RunContents]
    /\ images = [n \in {} |-> <<>>]
    /\ saved = <<>>
    /\ stdout = <<>>
    /\ pc = "open"
    /\ error = NoError
    /\ Fresh

\* lines 115-150: the next call, once the call before it has returned
NextCall ==
    /\ pc = "done"
    /\ pending # <<>>
    /\ file_path' = Head(pending)
    /\ pending' = Tail(pending)
    /\ pc' = "open"
    /\ data' = <<>>
    /\ idx' = 1
    /\ accel_data' = <<>>
    /\ gyro_data' = <<>>
    /\ timestamps' = <<>>
    /\ pitch_values' = <<>>
    /\ roll_values' = <<>>
    /\ gravity_adjusted_accel' = <<>>
    /\ accel_noise' = <<>>
    /\ accel_bias' = <<>>
    /\ accel_bias_length' = <<>>
    /\ gyro_noise' = <<>>
    /\ gyro_bias' = <<>>
    /\ gyro_bias_length' = <<>>
    /\ adjusted_timestamps' = <<>>
    /\ figure' = <<>>
    /\ result' = <<>>
    /\ UNCHANGED <<disk, images, saved, stdout, error>>

NextRuns == Next \/ NextCall

SpecRuns == InitRuns /\ [][NextRuns]_vars

-----------------------------------------------------------------------------
(* What the claims speak of *)

\* the entries the loop iterates over (none before json.load)
Input == IF Len(data) > 0 /\ Iterable(data[1]) THEN Items(data[1]) ELSE <<>>

\* the positions the loop has fetched
Visited == 1..(idx - 1)

\* the positions whose pass of the loop body ran to its end
Completed ==
    IF pc = "raised" /\ error.at = "filter" THEN 1..(idx - 2) ELSE Visited

\* a record object with the three sub-objects
IsFullRecord(e) == e.type = "dict" /\ Keys \subseteq DOMAIN e.val

\* a record object without one of them
IsKeylessRecord(e) == e.type = "dict" /\ ~(Keys \subseteq DOMAIN e.val)

\* the loop ran to its end
LoopDone ==
    \/ pc \in {"gravity", "stats", "print", "plot", "save", "return", "done"}
    \/ pc = "raised" /\ error.at = "gravity"

\* the full records among the first n entries, in input order
FullUpTo(n) == SelectSeq(SubSeq(Input, 1, n), IsFullRecord)

NoOutput == stdout = <<>> /\ DOMAIN images = {} /\ result = <<>>

\* C1: the loop takes a record exactly when it has the three keys
\* 'accelerometer', 'gyroscope' and 'orientation': a record without one of
\* them leaves nothing in any of the five sequences; every record with the
\* three keys whose pass has ended is in all five; while nothing has
\* raised, each sequence is as long as the records taken are many; and at
\* the end of the loop the taken and the dropped records add up to the input.
C1_FilterByThreeKeys ==
    /\ \A i \in Visited :
        IsKeylessRecord(Input[i]) =>
            LET d == Input[i].val
            IN  /\ "accelerometer" \in DOMAIN d =>
                      \A k \in 1..Len(accel_data) : accel_data[k] # Vec(d.accelerometer)
                /\ "gyroscope" \in DOMAIN d =>
                      \A k \in 1..Len(gyro_data) : gyro_data[k] # Vec(d.gyroscope)
                /\ "timestamp" \in DOMAIN d =>
                      \A k \in 1..Len(timestamps) : timestamps[k] # d.timestamp
                /\ "orientation" \in DOMAIN d =>
                      /\ \A k \in 1..Len(pitch_values) : pitch_values[k] # d.orientation.pitch
                      /\ \A k \in 1..Len(roll_values) : roll_values[k] # d.orientation.roll
    /\ \A i \in Completed :
        IsFullRecord(Input[i]) =>
            LET d == Input[i].val
            IN  /\ \E k \in 1..Len(accel_data) : accel_data[k] = Vec(d.accelerometer)
                /\ \E k \in 1..Len(gyro_data) : gyro_data[k] = Vec(d.gyroscope)
                /\ \E k \in 1..Len(timestamps) : timestamps[k] = d.timestamp
                /\ \E k \in 1..Len(pitch_values) : pitch_values[k] = d.orientation.pitch
                /\ \E k \in 1..Len(roll_values) : roll_values[k] = d.orientation.roll
    /\ pc # "raised" =>
        LET taken == Cardinality({i \in Visited : IsFullRecord(Input[i])})
        IN  /\ Len(accel_data) = taken
            /\ Len(gyro_data) = taken
            /\ Len(timestamps) = taken
            /\ Len(pitch_values) = taken
            /\ Len(roll_values) = taken
    /\ LoopDone =>
        /\ Visited = 1..Len(Input)
        /\ Len(timestamps)
             + Cardinality({i \in 1..Len(Input) : ~IsFullRecord(Input[i])})
             = Len(Input)

\* the loop has ended having taken a record and dropped a keyless one
C1_Witness ==
    /\ pc = "gravity"
    /\ Len(timestamps) >= 1
    /\ \E i \in 1..Len(Input) : IsKeylessRecord(Input[i])

\* C2: the loop raises for no record object, whatever the record lacks: it
\* skips the record and goes on.
C2_NoErrorForARecord ==
    ~(/\ pc = "raised"
      /\ error.at = "filter"
      /\ Len(Input) > 0
      /\ Input[idx - 1].type = "dict")

\* C3: the five sequences have the same length in every state, also where
\* the work on a record stopped part-way.
C3_EqualLengths ==
    /\ Len(accel_data) = Len(timestamps)
    /\ Len(gyro_data) = Len(timestamps)
    /\ Len(pitch_values) = Len(timestamps)
    /\ Len(roll_values) = Len(timestamps)

\* C4, the state part: the i-th item of each of the five sequences is the
\* field of the i-th record with the three keys, in input order.
C4_InInputOrder ==
    (pc # "raised" \/ error.at = "gravity") =>
        LET v == FullUpTo(idx - 1)
        IN  /\ accel_data = [i \in 1..Len(v) |-> Vec(v[i].val.accelerometer)]
            /\ gyro_data = [i \in 1..Len(v) |-> Vec(v[i].val.gyroscope)]
            /\ timestamps = [i \in 1..Len(v) |-> v[i].val.timestamp]
            /\ pitch_values = [i \in 1..Len(v) |-> v[i].val.orientation.pitch]
            /\ roll_values = [i \in 1..Len(v) |-> v[i].val.orientation.roll]
            /\ LoopDone => idx = Len(Input) + 1

\* C4: the derived sequences keep the input order of the records taken,
\* whatever their timestamps, and the loop fetches each entry once: the
\* iterator only ever moves on by one, and ends one past the last entry.
C4_OrderAndSinglePass ==
    /\ []C4_InInputOrder
    /\ [][idx' # idx => idx' = idx + 1]_vars

\* two records taken, the later one with the smaller timestamp
C4_Witness ==
    /\ pc = "done"
    /\ timestamps = <<12, 10>>
    /\ pitch_values = <<2, 1>>

\* C5: the gravity-adjusted array has the x and y of the raw array and its
\* z plus 1 in every row, and the raw array is still what the loop built.
C5_GravityOnZOnly ==
    Len(gravity_adjusted_accel) > 0 =>
        LET g == gravity_adjusted_accel[1]
            v == FullUpTo(Len(Input))
        IN  /\ Len(g) = Len(accel_data)
            /\ \A i \in 1..Len(g) :
                /\ g[i][1] = accel_data[i][1]
                /\ g[i][2] = accel_data[i][2]
                /\ g[i][3] = accel_data[i][3] + 1
            /\ \A i \in 1..Len(accel_data) :
                accel_data[i] = Vec(v[i].val.accelerometer)

\* the adjustment of an array of two rows
C5_Witness ==
    /\ Len(gravity_adjusted_accel) > 0
    /\ accel_data = << <<0, 0, -1>>, <<3, 0, -4>> >>
    /\ gravity_adjusted_accel[1] = << <<0, 0, 0>>, <<3, 0, -3>> >>

\* C6: the time axis of the pitch and of the roll plot is t[i] - t[0] in
\* the order of t, so it starts at 0; <<10, 12, 15>> gives <<0, 2, 5>>.
C6_TimeSinceFirstSample ==
    Len(adjusted_timestamps) > 0 =>
        LET a == adjusted_timestamps[1]
        IN  /\ Len(timestamps) > 0
            /\ Len(a) = Len(timestamps)
            /\ \A i \in 1..Len(a) : a[i] = timestamps[i] - timestamps[1]
            /\ a[1] = 0
            /\ figure[1].pitch.x = a
            /\ figure[1].roll.x = a
            /\ timestamps = <<10, 12, 15>> => a = <<0, 2, 5>>

\* the example of the claim
C6_Witness ==
    /\ timestamps = <<10, 12, 15>>
    /\ adjusted_timestamps = << <<0, 2, 5>> >>

\* C7 as claimed: two invocations on different paths never write the same
\* image file.
C7_DistinctFilePerPath ==
    \A i, j \in 1..Len(saved) :
        saved[i].path # saved[j].path => saved[i].name # saved[j].name

\* C7 as amended: every image written is named 'pitch_roll_time_series' +
\* the first 3 characters of the input path + '.png'; two invocations write
\* the same file exactly when their paths share those characters; the
\* working directory holds one image for each such prefix, and the file of
\* a prefix holds the figure of the last invocation that wrote it.
C7_DistinctFilePerPrefix ==
    /\ \A i \in 1..Len(saved) :
        saved[i].name =
            ImagePrefix \o SubSeq(saved[i].path, 1, 3) \o ImageSuffix
    /\ \A i, j \in 1..Len(saved) :
        (saved[i].name = saved[j].name)
            <=> (SubSeq(saved[i].path, 1, 3) = SubSeq(saved[j].path, 1, 3))
    /\ DOMAIN images = {saved[i].name : i \in 1..Len(saved)}
    /\ Cardinality(DOMAIN images)
         = Cardinality({SubSeq(saved[i].path, 1, 3) : i \in 1..Len(saved)})
    /\ pc \in {"return", "done"} =>
        images[saved[Len(saved)].name] = figure[1]

\* two invocations have written two files
C7_Witness ==
    /\ Len(saved) = 2
    /\ saved[1].name # saved[2].name
    /\ Cardinality(DOMAIN images) = 2

\* the phases leave their results in order: nothing is parsed from a file
\* that is not there, nothing is filtered before the parse, no statistic is
\* computed before the loop has ended, nothing is printed before the
\* statistics, nothing is plotted before the whole report is printed,
\* nothing is saved before the plot and nothing returned before the save
PhasesInOrder ==
    /\ Len(data) > 0 => file_path \in DOMAIN disk /\ disk[file_path].kind = "json"
    /\ (idx > 1 \/ Len(accel_data) > 0) => Len(data) > 0
    /\ Len(gravity_adjusted_accel) > 0 => Len(data) > 0 /\ idx = Len(Input) + 1
    /\ Len(accel_noise) > 0 => Len(gravity_adjusted_accel) > 0
    /\ Len(accel_noise) > 0 <=> Len(gyro_bias_length) > 0
    /\ Len(stdout) > 0 => Len(accel_noise) > 0 /\ stdout = Report
    /\ Len(figure) > 0 => Len(stdout) > 0
    /\ DOMAIN images # {} => Len(figure) > 0 /\ images[ImageName(file_path)] = figure[1]
    /\ Len(result) > 0 => DOMAIN images # {}
    /\ pc = "done" <=> Len(result) > 0

\* the file is missing, or is not JSON, or holds no array
NoArray ==
    \/ file_path \notin DOMAIN disk
    \/ disk[file_path].kind # "json"
    \/ disk[file_path].value.type # "list"

\* the file is missing, or is not JSON, or holds no array of record objects
NoArrayOfRecords ==
    \/ NoArray
    \/ \E i \in 1..Len(disk[file_path].value.items) :
        disk[file_path].value.items[i].type # "dict"

\* the invocation, if it has stopped, has stopped with an error, and has
\* put out nothing
AbortsWithoutOutput ==
    /\ NoOutput
    /\ pc \in {"open", "load", "filter", "gravity", "raised"}
    /\ pc = "raised" => error.type # ""
    /\ ENABLED Next \/ pc = "raised"

\* C8 as claimed: the phases run in order, and an invocation whose file is
\* missing or holds anything but a sequence of record objects aborts with
\* an error and no output.
C8_AbortOnAnyNonRecord ==
    /\ PhasesInOrder
    /\ NoArrayOfRecords => AbortsWithoutOutput

\* C8 as amended: the phases run in order, and an invocation whose file is
\* missing, is not JSON, holds no array at the top level, or holds an array
\* with a number in it aborts with an error and no output.
C8_AbortOnNoArray ==
    /\ PhasesInOrder
    /\ (\/ NoArray
        \/ \E i \in 1..Len(disk[file_path].value.items) :
            disk[file_path].value.items[i].type = "num")
         => AbortsWithoutOutput

\* an invocation on a top-level object has ended with an error
C8_Witness ==
    /\ file_path \in DOMAIN disk
    /\ disk[file_path].kind = "json"
    /\ disk[file_path].value.type = "object"
    /\ pc = "raised"

\* C9: accel_noise is the population standard deviation (divisor N) of the
\* lengths of the raw accel vectors, accel_bias the column means of the
\* gravity-adjusted array; lengths 1 and 3 give noise 1, and one record
\* gives noise 0 in both channels.
C9_NoiseOfRawLengths ==
    Len(accel_noise) > 0 =>
        LET n   == Len(accel_data)
            len == [i \in 1..n |-> ISqrt(accel_data[i][1] * accel_data[i][1]
                                         + accel_data[i][2] * accel_data[i][2]
                                         + accel_data[i][3] * accel_data[i][3])]
            sq  == [i \in 1..n |-> len[i] * len[i]]
            an  == accel_noise[1]
            gn  == gyro_noise[1]
        IN  /\ n > 0
            /\ an.den = n
            /\ an.radicand = n * SumSeq(sq) - SumSeq(len) * SumSeq(len)
            /\ \A c \in 1..3 :
                /\ accel_bias[1][c].den = n
                /\ accel_bias[1][c].num =
                     SumSeq([i \in 1..n |-> accel_data[i][c]]) + (IF c = 3 THEN n ELSE 0)
            /\ len = <<1, 3>> => an.radicand = an.den * an.den
            /\ n = 1 => /\ an.radicand = 0 /\ an.den = 1
                        /\ gn.radicand = 0 /\ gn.den = 1
            /\ Len(result) > 0 =>
                /\ result[1].accel_noise = an
                /\ result[1].accel_bias = accel_bias[1]

\* the example of the claim: raw lengths 1 and 3, noise sqrt(4)/2
C9_Witness ==
    /\ pc = "done"
    /\ accel_data = << <<0, 0, -1>>, <<0, 3, 0>> >>
    /\ result[1].accel_noise = [radicand |-> 4, den |-> 2]

\* C10: with no record taken the invocation fails at the gravity adjustment
\* with an IndexError: nothing is printed, written or returned, and lines
\* 77-80 never run on an empty timestamp array.
C10_NoValidRecordFails ==
    /\ (LoopDone /\ Len(accel_data) = 0) =>
        /\ pc \in {"gravity", "raised"}
        /\ pc = "raised" => error = [type |-> "IndexError", at |-> "gravity"]
        /\ NoOutput
        /\ Len(adjusted_timestamps) = 0
    /\ pc = "plot" => Len(timestamps) > 0
    /\ Len(adjusted_timestamps) > 0 => Len(adjusted_timestamps[1]) > 0

\* every record of a file of records was dropped, and the invocation failed
C10_Witness ==
    /\ pc = "raised"
    /\ error.type = "IndexError"
    /\ Len(Input) >= 1
    /\ Len(timestamps) = 0

====
